---- MODULE Spec2Model ----
(***************************************************************************)
(* Ground-station dashboard (src/unnamed/part_001): telemetry state,       *)
(* rolling history, Web Serial connection lifecycle, simulator and refresh *)
(* timer, modelled as one state machine.  Every action is one browser      *)
(* task: a click / input handler, a timer callback, or the continuation of *)
(* an `await` on real I/O, run to its next suspension point.               *)
(*                                                                         *)
(* Text is a sequence of one-character strings.  A JavaScript number is a  *)
(* fixed-point integer in units of 1/Scale (27.5 is 275).                  *)
(***************************************************************************)
EXTENDS Integers, Sequences, FiniteSets, TLC

\* ------------------------------------------------------------ bounds
MaxNow == 1         \* the clock reads 0..MaxNow under SpecTimed
MaxPushes == 1      \* history pushes explored under Spec
MaxSimTicks == 1    \* ticks of one simulator interval
MaxChunks == 2      \* chunks the device delivers
HistExtra == 3      \* pushes beyond MAX_POINTS explored under SpecHist
MaxLineChunks == 3  \* chunks the device delivers under SpecLines
MaxRefreshPushes == 3  \* history pushes explored under SpecRefresh
MaxParseChunks == 2  \* telemetry lines the device delivers under SpecParse

\* ------------------------------------------------------------ constants
MAX_POINTS == 200
Scale == 10
\* null; a timer handle, the port, the reader and the loop promise are positive
NULL == 0

\* ------------------------------------------------------------ text helpers
WhiteSpace == {" ", "\t", "\n", "\r"}

DigitChars == <<"0", "1", "2", "3", "4", "5", "6", "7", "8", "9">>

IsDigit(c) == \E i \in 1..10 : DigitChars[i] = c

DigitVal(c) == (CHOOSE i \in 1..10 : DigitChars[i] = c) - 1

\* String.prototype.indexOf for a one-character needle, 1-based; 0 when absent
IndexOf(s, c) ==
  IF \E i \in 1..Len(s) : s[i] = c
  THEN CHOOSE i \in 1..Len(s) : s[i] = c /\ \A j \in 1..(i - 1) : s[j] # c
  ELSE 0

Includes(s, sub) ==
  \E i \in 1..(Len(s) - Len(sub) + 1) : SubSeq(s, i, i + Len(sub) - 1) = sub

StartsWith(s, p) == Len(p) <= Len(s) /\ SubSeq(s, 1, Len(p)) = p

RECURSIVE TrimStart(_)
TrimStart(s) ==
  IF s # <<>> /\ Head(s) \in WhiteSpace THEN TrimStart(Tail(s)) ELSE s

RECURSIVE TrimEnd(_)
TrimEnd(s) ==
  IF s # <<>> /\ s[Len(s)] \in WhiteSpace
  THEN TrimEnd(SubSeq(s, 1, Len(s) - 1))
  ELSE s

Trim(s) == TrimEnd(TrimStart(s))

\* String.prototype.split for a one-character separator
RECURSIVE Split(_, _)
Split(s, c) ==
  LET i == IndexOf(s, c)
  IN  IF i = 0
      THEN <<s>>
      ELSE <<SubSeq(s, 1, i - 1)>> \o Split(SubSeq(s, i + 1, Len(s)), c)

\* split(c, 2): the first two pieces only, the rest is dropped
Split2(s, c) ==
  LET all == Split(s, c)
  IN  IF Len(all) > 2 THEN SubSeq(all, 1, 2) ELSE all

\* the longest prefix of s made of digits
RECURSIVE DigitPrefix(_)
DigitPrefix(s) ==
  IF s # <<>> /\ IsDigit(Head(s))
  THEN <<Head(s)>> \o DigitPrefix(Tail(s))
  ELSE <<>>

RECURSIVE DigitsValue(_)
DigitsValue(ds) ==
  IF ds = <<>>
  THEN 0
  ELSE 10 * DigitsValue(SubSeq(ds, 1, Len(ds) - 1)) + DigitVal(ds[Len(ds)])

NaN == [nan |-> TRUE, v |-> 0]

Num(n) == [nan |-> FALSE, v |-> n]

\* parseFloat: leading white space, an optional sign, digits, an optional
\* fraction; the longest such prefix, NaN when it holds no digit.  The value
\* keeps the first fraction digit (Scale = 10).  Exponents and "Infinity"
\* are outside the alphabet of the lines explored.
parseFloat(val) ==
  LET s0 == TrimStart(val)
      signed == s0 # <<>> /\ Head(s0) \in {"-", "+"}
      sign == IF s0 # <<>> /\ Head(s0) = "-" THEN -1 ELSE 1
      s1 == IF signed THEN Tail(s0) ELSE s0
      ip == DigitPrefix(s1)
      s2 == SubSeq(s1, Len(ip) + 1, Len(s1))
      dotted == s2 # <<>> /\ Head(s2) = "."
      fp == IF dotted THEN DigitPrefix(Tail(s2)) ELSE <<>>
      frac == IF fp = <<>> THEN 0 ELSE DigitVal(fp[1])
  IN  IF ip = <<>> /\ fp = <<>>
      THEN NaN
      ELSE Num(sign * (DigitsValue(ip) * Scale + frac))

\* ------------------------------------------------------------ Frame parser
ZeroFields ==
  [alt |-> 0, temp |-> 0, pres |-> 0, acc_x |-> 0, acc_y |-> 0, acc_z |-> 0,
   yaw_x |-> 0, yaw_y |-> 0, yaw_z |-> 0]

\* variant of AssignKey: the key is recognised by its first character
AssignKey_prefix(out, key, f) ==
  CASE key # <<>> /\ Head(key) = "A" -> [out EXCEPT !.alt = f]
    [] key # <<>> /\ Head(key) = "T" -> [out EXCEPT !.temp = f]
    [] key # <<>> /\ Head(key) = "P" -> [out EXCEPT !.pres = f]
    [] key # <<>> /\ Head(key) = "X" -> [out EXCEPT !.acc_x = f]
    [] key # <<>> /\ Head(key) = "Y" -> [out EXCEPT !.acc_y = f]
    [] key # <<>> /\ Head(key) = "Z" -> [out EXCEPT !.acc_z = f]
    [] OTHER -> out

\* the if / else-if chain on key (lines 155-163)
AssignKey(out, key, f) ==
  CASE key = <<"A">> -> [out EXCEPT !.alt = f]
    [] key = <<"T">> -> [out EXCEPT !.temp = f]
    [] key = <<"P">> -> [out EXCEPT !.pres = f]
    [] key = <<"X">> -> [out EXCEPT !.acc_x = f]
    [] key = <<"Y">> -> [out EXCEPT !.acc_y = f]
    [] key = <<"Z">> -> [out EXCEPT !.acc_z = f]
    [] key = <<"Y", "X">> -> [out EXCEPT !.yaw_x = f]
    [] key = <<"Y", "Y">> -> [out EXCEPT !.yaw_y = f]
    [] key = <<"Y", "Z">> -> [out EXCEPT !.yaw_z = f]
    [] OTHER -> out

\* one iteration of the loop over parts (lines 151-163)
ParseToken(out, p) ==
  IF ~Includes(p, <<"-">>)
  THEN out
  ELSE LET kv == Split2(p, "-")
           f == parseFloat(kv[2])
       IN  IF f.nan THEN out ELSE AssignKey(out, kv[1], f.v)

RECURSIVE ParseTokens(_, _)
ParseTokens(out, parts) ==
  IF parts = <<>>
  THEN out
  ELSE ParseTokens(ParseToken(out, Head(parts)), Tail(parts))

\* s.split(";").map(p => p.trim()).filter(Boolean)
RECURSIVE TrimmedNonEmpty(_)
TrimmedNonEmpty(ps) ==
  IF ps = <<>>
  THEN <<>>
  ELSE LET p == Trim(Head(ps))
       IN  (IF p = <<>> THEN <<>> ELSE <<p>>) \o TrimmedNonEmpty(Tail(ps))

DataMarker == <<"D", "a", "t", "a">>

DataPrefix == <<"D", "a", "t", "a", ":">>

parseSerialLine(line) ==
  LET s == Trim(line)
      body == IF StartsWith(s, DataPrefix)
              THEN Trim(SubSeq(s, 6, Len(s)))
              ELSE s
  IN  IF ~Includes(s, DataMarker)
      THEN ZeroFields
      ELSE ParseTokens(ZeroFields, TrimmedNonEmpty(Split(body, ";")))

\* ------------------------------------------------------------ state
VARIABLES
  state,                  \* const state (lines 2-7)
  hist,                   \* const hist (lines 9-14)
  autoRefresh,            \* line 17
  refreshHz,              \* line 18
  lastUpdateTs,           \* line 19
  port,                   \* line 20
  reader,                 \* line 21
  readingLoop,            \* line 22
  simTimer,               \* line 23
  refreshTimer,           \* line 304
  simT,                   \* the closure variable t of startSimulator, in ticks
  btnChoosePortDisabled,  \* els.btnChoosePort.disabled
  btnConnectDisabled,     \* els.btnConnect.disabled
  btnDisconnectDisabled,  \* els.btnDisconnect.disabled
  hasWebSerial,           \* line 316
  intervals,              \* the browser's active setInterval timers
  portState,              \* the SerialPort: closed, opening, open, closing
  connectPc,              \* connect(): idle, or opening (awaiting port.open)
  loopPc,                 \* the read loop: none, reading (awaiting read), ended
  buffer,                 \* the read loop's local buffer
  discPc,                 \* disconnect(): idle, cancel or close (awaiting)
  now,                    \* Date.now()/1000
  ui,                     \* what stepUI last handed to the page and to Plotly
  \* history variables, read by the properties only
  ev,                     \* the task that ran last
  sent,                   \* chunks the device has delivered
  rx,                     \* text the current read loop has received
  handed,                 \* lines the current read loop gave parseSerialLine
  pushLog,                \* every entry pushHistory appended, in order
  renders,                \* calls of stepUI so far
  closes,                 \* disconnect() calls completed since the last open
  loopOverlap,            \* a read loop was started while another was reading
  uncaught                \* an exception escaped a handler

vars ==
  <<state, hist, autoRefresh, refreshHz, lastUpdateTs, port, reader,
    readingLoop, simTimer, refreshTimer, simT, btnChoosePortDisabled,
    btnConnectDisabled, btnDisconnectDisabled, hasWebSerial, intervals,
    portState, connectPc, loopPc, buffer, discPc, now, ui, ev, sent, rx,
    handed, pushLog, renders, closes, loopOverlap, uncaught>>

loopData ==
  <<state, hist, lastUpdateTs, buffer, ui, rx, handed, pushLog, renders>>

timerVars == <<simTimer, refreshTimer, simT, intervals, refreshHz>>

serialVars == <<port, reader, readingLoop, portState, connectPc, loopPc, discPc>>

buttonVars == <<btnChoosePortDisabled, btnConnectDisabled, btnDisconnectDisabled>>

ghostVars == <<closes, loopOverlap, uncaught>>

\* the refresh rates the slider is moved between
HzValues == {1, 10}

\* ------------------------------------------------------------ timers
\* setInterval: the handle is the least id not in use
FreshId(ivs) ==
  CHOOSE i \in 1..(Cardinality(ivs) + 1) : \A iv \in ivs : iv.id # i

SetInterval(ivs, kind, period) ==
  ivs \cup {[id |-> FreshId(ivs), kind |-> kind, period |-> period]}

ClearInterval(ivs, id) == {iv \in ivs : iv.id # id}

Max(a, b) == IF a >= b THEN a ELSE b

\* Math.max(10, Math.floor(1000 / Math.max(1, hz)))
PeriodMs(hz) == Max(10, 1000 \div Max(1, hz))

SimIntervals == {iv \in intervals : iv.kind = "sim"}

RefreshIntervals == {iv \in intervals : iv.kind = "refresh"}

\* variant of setRefreshLoop: the previous timer is not cleared
setRefreshLoop_leak(ivs, handle, hz) ==
  [ivs |-> SetInterval(ivs, "refresh", PeriodMs(hz)), handle |-> FreshId(ivs)]

\* variant of setRefreshLoop: the running timer is kept as it is
setRefreshLoop_keep(ivs, handle, hz) ==
  IF handle # NULL
  THEN [ivs |-> ivs, handle |-> handle]
  ELSE [ivs |-> SetInterval(ivs, "refresh", PeriodMs(hz)),
        handle |-> FreshId(ivs)]

\* setRefreshLoop (lines 305-313): the timers and the handle afterwards
setRefreshLoop(ivs, handle, hz) ==
  LET cleared == IF handle # NULL THEN ClearInterval(ivs, handle) ELSE ivs
  IN  [ivs |-> SetInterval(cleared, "refresh", PeriodMs(hz)),
       handle |-> FreshId(cleared)]

\* startSimulator (lines 405-408, 422): the timers, the handle and t afterwards
startSimulator(ivs, handle, t, hz) ==
  IF handle # NULL
  THEN [ivs |-> ivs, handle |-> handle, t |-> t]
  ELSE [ivs |-> SetInterval(ivs, "sim", PeriodMs(hz)),
        handle |-> FreshId(ivs), t |-> 0]

\* variant of stopSimulator: the handle is dropped, the interval is not cleared
stopSimulator_forget(ivs, handle, t) == [ivs |-> ivs, handle |-> NULL, t |-> 0]

\* variant of stopSimulator: the running simulator is left alone
stopSimulator_skip(ivs, handle, t) == [ivs |-> ivs, handle |-> handle, t |-> t]

\* if (simTimer) { clearInterval(simTimer); simTimer = null; } (lines 346, 439)
stopSimulator(ivs, handle, t) ==
  IF handle # NULL
  THEN [ivs |-> ClearInterval(ivs, handle), handle |-> NULL, t |-> 0]
  ELSE [ivs |-> ivs, handle |-> handle, t |-> t]

\* the values one simulator tick writes (lines 410-419).  t is ticks/hz; the
\* closed-form trigonometric values are abstracted to a drift along t.
SimSample(ticks, hz) ==
  LET tt == (ticks * Scale) \div Max(1, hz)
  IN  [alt |-> 100 * Scale + tt, temp |-> 25 * Scale + tt,
       pres |-> 1013 * Scale + tt, acc_x |-> tt, acc_y |-> 5,
       acc_z |-> 98 + tt, yaw_x |-> tt, yaw_y |-> 100 - tt,
       yaw_z |-> (20 * tt) % (360 * Scale)]

\* ------------------------------------------------------------ history
Last(s, n) == IF Len(s) > n THEN SubSeq(s, Len(s) - n + 1, Len(s)) ELSE s

\* variant of clampHistory: only the time sequence is truncated
clampHistory_partial(h) ==
  [k \in DOMAIN h |->
     IF k = "t" /\ Len(h[k]) > MAX_POINTS THEN Last(h[k], MAX_POINTS) ELSE h[k]]

\* variant of clampHistory: slice(0, MAX_POINTS), the oldest entries are kept
clampHistory_first(h) ==
  [k \in DOMAIN h |-> IF Len(h[k]) > MAX_POINTS THEN SubSeq(h[k], 1, MAX_POINTS) ELSE h[k]]

\* clampHistory (lines 58-62)
clampHistory(h) ==
  [k \in DOMAIN h |-> IF Len(h[k]) > MAX_POINTS THEN Last(h[k], MAX_POINTS) ELSE h[k]]

\* variant of pushHistory: the entry is appended twice
pushHistory_twice(h, st, t) ==
  clampHistory([t |-> h.t \o <<t, t>>, alt |-> h.alt \o <<st.alt, st.alt>>,
                temp |-> h.temp \o <<st.temp, st.temp>>,
                pres |-> h.pres \o <<st.pres, st.pres>>])

\* pushHistory (lines 289-295)
pushHistory(h, st, t) ==
  clampHistory([t |-> Append(h.t, t), alt |-> Append(h.alt, st.alt),
                temp |-> Append(h.temp, st.temp), pres |-> Append(h.pres, st.pres)])

PushEntry(st, t) == [t |-> t, alt |-> st.alt, temp |-> st.temp, pres |-> st.pres]

\* ------------------------------------------------------------ telemetry UI
Pow10(d) == IF d = 0 THEN 1 ELSE IF d = 1 THEN 10 ELSE 100

\* Number.prototype.toFixed(d) of a value held in units of 1/Scale: the
\* decimal shown, in units of 10^-d
toFixed(v, d) == (v * Pow10(d)) \div Scale

\* variant of updateMetrics: the lag is counted from lastUpdateTs
updateMetrics_stale(st, t) ==
  [alt |-> toFixed(st.alt, 2), temp |-> toFixed(st.temp, 2),
   pres |-> toFixed(st.pres, 2), ax |-> toFixed(st.acc_x, 2),
   ay |-> toFixed(st.acc_y, 2), az |-> toFixed(st.acc_z, 2),
   yx |-> toFixed(st.yaw_x, 2), yy |-> toFixed(st.yaw_y, 2),
   yz |-> toFixed(st.yaw_z, 2), lag |-> toFixed(Max(0, t - lastUpdateTs), 1)]

\* updateMetrics (lines 273-286): the nine readouts and the lag
updateMetrics(st, t) ==
  [alt |-> toFixed(st.alt, 2), temp |-> toFixed(st.temp, 2),
   pres |-> toFixed(st.pres, 2), ax |-> toFixed(st.acc_x, 2),
   ay |-> toFixed(st.acc_y, 2), az |-> toFixed(st.acc_z, 2),
   yx |-> toFixed(st.yaw_x, 2), yy |-> toFixed(st.yaw_y, 2),
   yz |-> toFixed(st.yaw_z, 2), lag |-> toFixed(Max(0, t - st.ts), 1)]

\* updateCharts (lines 235-239): the three series handed to Plotly
updateCharts(h) == [alt |-> h.alt, temp |-> h.temp, pres |-> h.pres]

\* updateAttitude (lines 241-270): the angles given to zyxRotationMatrix, in
\* its argument order, and the title; the rotated mesh and axes are a
\* function of the angles
updateAttitude(st) ==
  [angles |-> <<st.yaw_z, st.yaw_y, st.yaw_x>>,
   title |-> <<toFixed(st.yaw_x, 1), toFixed(st.yaw_y, 1), toFixed(st.yaw_z, 1)>>]

\* stepUI (lines 297-302)
stepUI(st, h, t) ==
  [metrics |-> updateMetrics(st, t), charts |-> updateCharts(h),
   attitude |-> updateAttitude(st)]

\* ------------------------------------------------------------ live ingestion
\* variant of AssignFields: a channel the record holds as 0 keeps its value
AssignFields_merge(st, fields, t) ==
  [k \in DOMAIN st |->
     IF k = "ts" THEN t
     ELSE IF k \in DOMAIN fields /\ fields[k] # 0 THEN fields[k]
     ELSE st[k]]

\* Object.assign(state, {...fields, ts}) (lines 363-368): vel is not assigned
AssignFields(st, fields, t) ==
  [st EXCEPT !.yaw_x = fields.yaw_x, !.yaw_y = fields.yaw_y,
             !.yaw_z = fields.yaw_z, !.acc_x = fields.acc_x,
             !.acc_y = fields.acc_y, !.acc_z = fields.acc_z,
             !.alt = fields.alt, !.temp = fields.temp, !.pres = fields.pres,
             !.ts = t]

\* variant of ApplyLine: the push and the recompute wait for auto-refresh
ApplyLine_gated(c, line) ==
  LET st == AssignFields(c.state, parseSerialLine(line), c.now)
      h == IF autoRefresh THEN pushHistory(c.hist, st, c.now) ELSE c.hist
  IN  [c EXCEPT !.state = st,
                !.lastUpdateTs = st.ts,
                !.hist = h,
                !.ui = IF autoRefresh THEN stepUI(st, h, c.now) ELSE c.ui,
                !.pushLog = IF autoRefresh
                            THEN Append(c.pushLog, PushEntry(st, c.now))
                            ELSE c.pushLog,
                !.renders = IF autoRefresh THEN c.renders + 1 ELSE c.renders,
                !.handed = Append(c.handed, line)]

\* lines 361-372 for one non-empty line; c is the loop's view of the data
ApplyLine(c, line) ==
  LET st == AssignFields(c.state, parseSerialLine(line), c.now)
      h == pushHistory(c.hist, st, c.now)
  IN  [c EXCEPT !.state = st,
                !.lastUpdateTs = st.ts,
                !.hist = h,
                !.ui = stepUI(st, h, c.now),
                !.pushLog = Append(c.pushLog, PushEntry(st, c.now)),
                !.renders = c.renders + 1,
                !.handed = Append(c.handed, line)]

\* the inner while loop (lines 357-373)
RECURSIVE DrainLines(_)
DrainLines(c) ==
  LET idx == IndexOf(c.buffer, "\n")
  IN  IF idx = 0
      THEN c
      ELSE LET line == Trim(SubSeq(c.buffer, 1, idx - 1))
               rest == [c EXCEPT !.buffer = SubSeq(c.buffer, idx + 1, Len(c.buffer))]
           IN  IF line = <<>>
               THEN DrainLines(rest)
               ELSE DrainLines(ApplyLine(rest, line))

\* variant of OnChunk: buffer = value, the buffered text is overwritten
OnChunk_reset(value) ==
  DrainLines([buffer |-> value, state |-> state, hist |-> hist,
              lastUpdateTs |-> lastUpdateTs, ui |-> ui, pushLog |-> pushLog,
              renders |-> renders, handed |-> handed, now |-> now])

\* one resolved reader.read() with a chunk (lines 353-373)
OnChunk(value) ==
  DrainLines([buffer |-> buffer \o value, state |-> state, hist |-> hist,
              lastUpdateTs |-> lastUpdateTs, ui |-> ui, pushLog |-> pushLog,
              renders |-> renders, handed |-> handed, now |-> now])

\* ------------------------------------------------------------ initial state
InitState ==
  [yaw_x |-> 0, yaw_y |-> 0, yaw_z |-> 0, acc_x |-> 0, acc_y |-> 0,
   acc_z |-> 0, vel |-> 0, alt |-> 0, temp |-> 0, pres |-> 0, ts |-> 0]

InitHist == [t |-> <<>>, alt |-> <<>>, temp |-> <<>>, pres |-> <<>>]

\* the page after initCharts and initAttitude (lines 169-233): empty series,
\* the attitude at the identity; the readouts are those of the initial state
InitUi == stepUI(InitState, InitHist, 0)

\* the module's top-level code and init() (lines 1-23, 443-460)
Init ==
  /\ state = InitState
  /\ hist = InitHist
  /\ autoRefresh = TRUE
  /\ refreshHz = 10
  /\ lastUpdateTs = 0
  /\ port = NULL
  /\ reader = NULL
  /\ readingLoop = NULL
  /\ hasWebSerial \in BOOLEAN
  /\ btnChoosePortDisabled = ~hasWebSerial
  /\ btnConnectDisabled = TRUE
  /\ btnDisconnectDisabled = TRUE
  /\ LET r == setRefreshLoop({}, NULL, 10)
         s == startSimulator(r.ivs, NULL, 0, 10)
     IN  /\ refreshTimer = r.handle
         /\ intervals = s.ivs
         /\ simTimer = s.handle
         /\ simT = s.t
  /\ portState = "closed"
  /\ connectPc = "idle"
  /\ loopPc = "none"
  /\ buffer = <<>>
  /\ discPc = "idle"
  /\ now = 0
  /\ ui = InitUi
  /\ renders = 0
  /\ ev = "init"
  /\ sent = 0
  /\ rx = <<>>
  /\ handed = <<>>
  /\ pushLog = <<>>
  /\ closes = 0
  /\ loopOverlap = FALSE
  /\ uncaught = FALSE

\* ------------------------------------------------------------ device text
LineData == <<"D", "a", "t", "a", ":", "A", "-", "5", "\n">>

LineOther == <<"h", "i", "\n">>

\* the chunks delivered under Spec: a telemetry line and another line
Chunks == {LineData, LineOther}

LineHist ==
  <<"D", "a", "t", "a", ":", "A", "-", "5", ";", "T", "-", "7", ";", "P", "-",
    "9", "\n">>

\* the chunk delivered under SpecHist: a line naming the three charted channels
HistChunks == {LineHist}

\* the chunks delivered under SpecLines: text cut at arbitrary places
LineChunks ==
  {<<"a">>, <<"\n">>, <<"b", " ", "\n", "c">>, <<" ">>, <<"d", "\n", "\n">>}

\* the tokens of the telemetry lines delivered under SpecParse
TokA == <<"A", "-", "4", "5", "0", ".", "2">>

TokT == <<"T", "-", "2", "7", ".", "5">>

TokP == <<"P", "-", "1", "0", "1", "3", ".", "0">>

TokX == <<"X", "-", "5">>

TokY == <<"Y", "-", "1">>

TokZ == <<"Z", "-", "9">>

TokYX == <<"Y", "X", "-", "1", "0">>

TokYY == <<"Y", "Y", "-", "3">>

TokYZ == <<"Y", "Z", "-", "2">>

TokNeg == <<"A", "-", "-", "5">>

TokUnknown == <<"Q", "-", "9">>

TokBad == <<"T", "-", "x">>

TokNoDash == <<"T", "7">>

TokA2 == <<"A", "-", "7">>

FirstTokens ==
  {TokA, TokT, TokP, TokX, TokY, TokZ, TokYX, TokYY, TokYZ, TokNeg, TokUnknown,
   TokBad, TokNoDash}

SecondTokens == {TokT, TokYX}

\* "Data: a; b;" and its newline, the format of the comment on line 143
ParseLine(a, b) ==
  DataPrefix \o <<" ">> \o a \o <<";", " ">> \o b \o <<";", "\n">>

\* every first token with every second one, and a key given twice
ParseChunks ==
  {ParseLine(a, b) : a \in FirstTokens, b \in SecondTokens}
    \cup {ParseLine(TokA, TokA2)}

\* ------------------------------------------------------------ choosePort
\* lines 318-331, requestPort resolved with the device's port (a rejected
\* request only logs a warning)
ChoosePort ==
  /\ ~btnChoosePortDisabled
  /\ IF ~hasWebSerial
     THEN UNCHANGED <<port, btnConnectDisabled>>
     ELSE /\ port' = 1
          /\ btnConnectDisabled' = FALSE
  /\ ev' = "choosePort"
  /\ UNCHANGED <<loopData, timerVars, ghostVars, autoRefresh, reader,
                 readingLoop, portState, connectPc, loopPc, discPc,
                 btnChoosePortDisabled, btnDisconnectDisabled, hasWebSerial,
                 now, sent>>

\* ------------------------------------------------------------ connect
\* variant of OpenOutcomes: a port that is not closed can be opened again
OpenOutcomes_any == {"pending", "rejected"}

\* port.open settles at once with a rejection when the port is not closed or
\* the baud rate is invalid; otherwise it is pending until the device answers
OpenOutcomes ==
  IF portState = "closed" THEN {"pending", "rejected"} ELSE {"rejected"}

\* variant of connectCatch: the connect control is not re-enabled
connectCatch_keep(disabled) == disabled

\* the catch block of connect (lines 381-385): els.btnConnect.disabled
connectCatch(disabled) == FALSE

\* connect up to the await of port.open (lines 333-338)
ConnectClick ==
  /\ ~btnConnectDisabled
  /\ IF port = NULL
     THEN /\ ev' = "connectNoPort"
          /\ UNCHANGED <<btnConnectDisabled, portState, connectPc>>
     ELSE \E outcome \in OpenOutcomes :
            IF outcome = "pending"
            THEN /\ btnConnectDisabled' = TRUE
                 /\ portState' = "opening"
                 /\ connectPc' = "opening"
                 /\ ev' = "connectClick"
            ELSE /\ btnConnectDisabled' = connectCatch(TRUE)
                 /\ ev' = "connectFailed"
                 /\ UNCHANGED <<portState, connectPc>>
  /\ UNCHANGED <<loopData, timerVars, ghostVars, autoRefresh, port, reader,
                 readingLoop, loopPc, discPc, btnChoosePortDisabled,
                 btnDisconnectDisabled, hasWebSerial, now, sent>>

\* port.open resolved: lines 339-353, up to the loop's first await
OpenOk ==
  /\ connectPc = "opening"
  /\ portState' = "open"
  /\ reader' = 1
  /\ btnDisconnectDisabled' = FALSE
  /\ LET s == stopSimulator(intervals, simTimer, simT)
     IN  /\ intervals' = s.ivs
         /\ simTimer' = s.handle
         /\ simT' = s.t
  /\ readingLoop' = 1
  /\ loopPc' = "reading"
  /\ buffer' = <<>>
  /\ connectPc' = "idle"
  /\ rx' = <<>>
  /\ handed' = <<>>
  /\ closes' = 0
  /\ loopOverlap' = (loopOverlap \/ loopPc = "reading")
  /\ ev' = "connected"
  /\ UNCHANGED <<state, hist, lastUpdateTs, ui, pushLog, renders, autoRefresh,
                 refreshHz, refreshTimer, port, discPc, btnChoosePortDisabled,
                 btnConnectDisabled, hasWebSerial, now, sent, uncaught>>

\* port.open rejected after the wait: the catch block (lines 381-385)
OpenFail ==
  /\ connectPc = "opening"
  /\ portState' = "closed"
  /\ connectPc' = "idle"
  /\ btnConnectDisabled' = connectCatch(btnConnectDisabled)
  /\ ev' = "connectFailed"
  /\ UNCHANGED <<loopData, timerVars, ghostVars, autoRefresh, port, reader,
                 readingLoop, loopPc, discPc, btnChoosePortDisabled,
                 btnDisconnectDisabled, hasWebSerial, now, sent>>

\* ------------------------------------------------------------ read loop
\* the device delivers one chunk.  A pending reader.read() resolves with it
\* and the loop runs to its next await (lines 353-374); with no read pending
\* nothing in the page sees the chunk.
DeviceSends(chunks, maxChunks, maxPushes) ==
  /\ readingLoop # NULL
  /\ sent < maxChunks
  /\ sent' = sent + 1
  /\ \E value \in chunks :
       IF loopPc = "reading"
       THEN LET c == OnChunk(value)
            IN  /\ Len(c.pushLog) <= maxPushes
                /\ state' = c.state
                /\ hist' = c.hist
                /\ lastUpdateTs' = c.lastUpdateTs
                /\ buffer' = c.buffer
                /\ ui' = c.ui
                /\ pushLog' = c.pushLog
                /\ renders' = c.renders
                /\ handed' = c.handed
                /\ rx' = rx \o value
                /\ ev' = "liveChunk"
       ELSE /\ ev' = "chunkDropped"
            /\ UNCHANGED loopData
  /\ UNCHANGED <<timerVars, serialVars, buttonVars, ghostVars, autoRefresh,
                 hasWebSerial, now>>

\* the pending read rejects: catch and finally (lines 375-379)
ReadFail ==
  /\ loopPc = "reading"
  /\ loopPc' = "ended"
  /\ ev' = "readError"
  /\ UNCHANGED <<loopData, timerVars, buttonVars, ghostVars, autoRefresh,
                 port, reader, readingLoop, portState, connectPc, discPc,
                 hasWebSerial, now, sent>>

\* the pending read resolves with done: break and finally (lines 354, 377-379)
ReadDone ==
  /\ loopPc = "reading"
  /\ loopPc' = "ended"
  /\ ev' = "readDone"
  /\ UNCHANGED <<loopData, timerVars, buttonVars, ghostVars, autoRefresh,
                 port, reader, readingLoop, portState, connectPc, discPc,
                 hasWebSerial, now, sent>>

\* ------------------------------------------------------------ disconnect
\* variant of loopAfterCancel: the pending read is not cancelled
loopAfterCancel_keep(pc) == pc

\* variant of Escapes: the calls are not wrapped in try / catch
Escapes_all(threw) == threw

\* reader.cancel() (line 391) on the read loop: a pending read resolves with
\* done, the loop breaks and releases its lock
loopAfterCancel(pc) == "ended"

\* whether an exception thrown inside disconnect's try { } catch(_) { }
\* wrappers (lines 391, 392, 396) leaves the handler
Escapes(threw) == FALSE

\* port.close() (line 396) is pending while the device closes; it rejects at
\* once when the port is not open, or while its stream is still locked
CloseOutcomes(cancelInFlight) ==
  IF port # NULL /\ portState = "open" /\ ~cancelInFlight
  THEN {"pending", "rejected"}
  ELSE {"rejected"}

\* the finally block (lines 398-401)
disconnectFinally ==
  [btnDisconnect |-> TRUE, btnConnect |-> (port = NULL)]

DisconnectFinish(pcAfter) ==
  /\ btnDisconnectDisabled' = disconnectFinally.btnDisconnect
  /\ btnConnectDisabled' = disconnectFinally.btnConnect
  /\ discPc' = pcAfter
  /\ closes' = IF closes < 2 THEN closes + 1 ELSE closes
  /\ ev' = "disconnectDone"

\* lines 392-401, after reader.cancel() has settled; releaseThrew: line 392
\* ran on a reader another call had already cleared
DisconnectRest(releaseThrew, cancelInFlight, pcAfter) ==
  /\ reader' = NULL
  /\ \E outcome \in CloseOutcomes(cancelInFlight) :
       IF outcome = "pending"
       THEN /\ portState' = "closing"
            /\ discPc' = "close"
            /\ ev' = "disconnectClosing"
            /\ uncaught' = (uncaught \/ Escapes(releaseThrew))
            /\ UNCHANGED <<btnConnectDisabled, btnDisconnectDisabled, closes>>
       ELSE /\ DisconnectFinish(pcAfter)
            /\ uncaught' = (uncaught \/ Escapes(releaseThrew \/ port # NULL))
            /\ UNCHANGED portState

\* disconnect up to its first pending await (lines 388-396)
DisconnectClick ==
  /\ ~btnDisconnectDisabled
  /\ IF reader # NULL /\ loopPc = "reading"
     THEN /\ loopPc' = loopAfterCancel(loopPc)
          /\ discPc' = "cancel"
          /\ ev' = "disconnectCancelling"
          /\ UNCHANGED <<reader, portState, btnConnectDisabled,
                         btnDisconnectDisabled, closes, uncaught>>
     ELSE /\ DisconnectRest(FALSE, discPc = "cancel", discPc)
          /\ UNCHANGED loopPc
  /\ UNCHANGED <<loopData, timerVars, autoRefresh, port, readingLoop,
                 connectPc, btnChoosePortDisabled, hasWebSerial, now, sent,
                 loopOverlap>>

\* reader.cancel() resolved: lines 392-401
CancelDone ==
  /\ discPc = "cancel"
  /\ DisconnectRest(reader = NULL, FALSE, "idle")
  /\ UNCHANGED <<loopData, timerVars, autoRefresh, port, readingLoop,
                 connectPc, loopPc, btnChoosePortDisabled, hasWebSerial, now,
                 sent, loopOverlap>>

\* port.close() resolved: the finally block (lines 398-401)
CloseDone ==
  /\ discPc = "close"
  /\ portState' = "closed"
  /\ DisconnectFinish("idle")
  /\ UNCHANGED <<loopData, timerVars, autoRefresh, port, reader, readingLoop,
                 connectPc, loopPc, btnChoosePortDisabled, hasWebSerial, now,
                 sent, loopOverlap, uncaught>>

\* ------------------------------------------------------------ timers and inputs
\* the refresh-hz input handler (lines 434-440)
RefreshInput ==
  \E hz \in HzValues \ {refreshHz} :
    /\ refreshHz' = hz
    /\ LET r == setRefreshLoop(intervals, refreshTimer, hz)
           stopped == stopSimulator(r.ivs, simTimer, simT)
           s == IF reader = NULL
                THEN startSimulator(stopped.ivs, stopped.handle, stopped.t, hz)
                ELSE [ivs |-> r.ivs, handle |-> simTimer, t |-> simT]
       IN  /\ refreshTimer' = r.handle
           /\ intervals' = s.ivs
           /\ simTimer' = s.handle
           /\ simT' = s.t
    /\ ev' = "rateChange"
    /\ UNCHANGED <<loopData, serialVars, buttonVars, ghostVars, autoRefresh,
                   hasWebSerial, now, sent>>

\* the auto-refresh change handler (lines 430-432)
AutoRefreshChange ==
  /\ autoRefresh' = ~autoRefresh
  /\ ev' = "autoRefresh"
  /\ UNCHANGED <<loopData, timerVars, serialVars, buttonVars, ghostVars,
                 hasWebSerial, now, sent>>

\* the refresh timer's callback (lines 308-312)
RefreshTick(maxPushes) ==
  /\ \E iv \in RefreshIntervals :
       IF ~autoRefresh
       THEN /\ ev' = "refreshIdle"
            /\ UNCHANGED <<hist, ui, pushLog, renders>>
       ELSE /\ Len(pushLog) < maxPushes
            /\ hist' = pushHistory(hist, state, now)
            /\ ui' = stepUI(state, hist', now)
            /\ pushLog' = Append(pushLog, PushEntry(state, now))
            /\ renders' = renders + 1
            /\ ev' = "refreshTick"
  /\ UNCHANGED <<state, lastUpdateTs, buffer, rx, handed, timerVars,
                 serialVars, buttonVars, ghostVars, autoRefresh, hasWebSerial,
                 now, sent>>

\* variant of SimWrite: the tick also pushes its sample into the history
SimWrite_push(st, h, ticks, hz, t) ==
  [state |-> AssignFields(st, SimSample(ticks, hz), t),
   hist |-> pushHistory(h, AssignFields(st, SimSample(ticks, hz), t), t)]

\* what one tick writes (line 421): the telemetry state, and the history
\* as it found it
SimWrite(st, h, ticks, hz, t) ==
  [state |-> AssignFields(st, SimSample(ticks, hz), t), hist |-> h]

\* the simulator timer's callback (lines 408-422)
SimTick ==
  /\ \E iv \in SimIntervals :
       /\ simT < MaxSimTicks
       /\ simT' = simT + 1
       /\ LET w == SimWrite(state, hist, simT + 1, refreshHz, now)
          IN  /\ state' = w.state
              /\ hist' = w.hist
  /\ ev' = "simTick"
  /\ UNCHANGED <<lastUpdateTs, buffer, ui, rx, handed, pushLog, renders,
                 simTimer, refreshTimer, intervals, refreshHz, serialVars,
                 buttonVars, ghostVars, autoRefresh, hasWebSerial, now, sent>>

\* Date.now() moves on
AdvanceClock ==
  /\ now < MaxNow
  /\ now' = now + 1
  /\ ev' = "clock"
  /\ UNCHANGED <<loopData, timerVars, serialVars, buttonVars, ghostVars,
                 autoRefresh, hasWebSerial, sent>>

\* ------------------------------------------------------------ specifications
Next ==
  \/ ChoosePort
  \/ ConnectClick
  \/ OpenOk
  \/ OpenFail
  \/ DeviceSends(Chunks, MaxChunks, MaxPushes)
  \/ ReadFail
  \/ ReadDone
  \/ DisconnectClick
  \/ CancelDone
  \/ CloseDone
  \/ RefreshInput
  \/ AutoRefreshChange
  \/ RefreshTick(MaxPushes)
  \/ SimTick

Spec == Init /\ [][Next]_vars

\* the writers of the telemetry state and the refresh timer, with the clock
\* moving between tasks
NextTimed ==
  \/ ChoosePort
  \/ ConnectClick
  \/ OpenOk
  \/ DeviceSends(Chunks, MaxChunks, MaxRefreshPushes)
  \/ AutoRefreshChange
  \/ RefreshTick(MaxRefreshPushes)
  \/ SimTick
  \/ AdvanceClock

SpecTimed == Init /\ [][NextTimed]_vars

\* the history under pushes from the refresh timer and from live ingestion
NextHist ==
  \/ ChoosePort
  \/ ConnectClick
  \/ OpenOk
  \/ DeviceSends(HistChunks, MaxChunks, MAX_POINTS + HistExtra)
  \/ RefreshTick(MAX_POINTS + HistExtra)

SpecHist == Init /\ [][NextHist]_vars

\* the read loop under text cut into chunks at arbitrary places
NextLines ==
  \/ ChoosePort
  \/ ConnectClick
  \/ OpenOk
  \/ DeviceSends(LineChunks, MaxLineChunks, 2 * MaxLineChunks)

SpecLines == Init /\ [][NextLines]_vars

\* the read loop under telemetry lines of two tokens each
NextParse ==
  \/ ChoosePort
  \/ ConnectClick
  \/ OpenOk
  \/ DeviceSends(ParseChunks, MaxParseChunks, MaxParseChunks)

SpecParse == Init /\ [][NextParse]_vars

\* the refresh scheduler and the simulator with no transport attached
NextRefresh ==
  \/ RefreshInput
  \/ AutoRefreshChange
  \/ RefreshTick(MaxRefreshPushes)
  \/ SimTick
  \/ AdvanceClock

SpecRefresh == Init /\ [][NextRefresh]_vars

\* ------------------------------------------------------------ properties
SimRunning == simTimer # NULL /\ SimIntervals # {}

\* the newline-terminated lines of a text, and the text after its last newline
StreamLines(text) ==
  LET pieces == Split(text, "\n") IN SubSeq(pieces, 1, Len(pieces) - 1)

StreamRest(text) ==
  LET pieces == Split(text, "\n") IN pieces[Len(pieces)]

\* column k of the push log
LogColumn(k) == [i \in 1..Len(pushLog) |-> pushLog[i][k]]

\* C1: a complete non-empty line without "Data" is not an update: the
\* telemetry state and its update timestamp are the same after the line is
\* processed as before it.
C1_NonDataLineLeavesState ==
  [][(/\ ev' = "liveChunk"
      /\ Len(handed') = Len(handed) + 1
      /\ ~Includes(handed'[Len(handed')], DataMarker))
     => (state' = state /\ lastUpdateTs' = lastUpdateTs)]_vars

\* C2: while a reader is attached no simulator timer is active, and the
\* simulator writes nothing into the telemetry state.
C2_SimulatorOffWhileAttached ==
  reader # NULL => (simTimer = NULL /\ SimIntervals = {} /\ ev # "simTick")

C2_Witness ==
  /\ reader # NULL
  /\ loopPc = "reading"
  /\ ev = "rateChange"
  /\ SimIntervals = {}

\* C3: every history sequence holds at most MAX_POINTS entries in every
\* state, and holds exactly the last MAX_POINTS entries pushed (all of them
\* while fewer were pushed), in arrival order.
C3_HistoryIsLastPushes ==
  \A k \in DOMAIN hist :
    /\ Len(hist[k]) <= MAX_POINTS
    /\ hist[k] = Last(LogColumn(k), MAX_POINTS)

C3_Witness ==
  /\ Len(pushLog) = MAX_POINTS + HistExtra
  /\ ev = "refreshTick"
  /\ Len(handed) >= 1
  /\ hist.alt[1] # hist.alt[MAX_POINTS]

\* C4: when a disconnect completes, the simulator timer is running again.
C4_SimulatorRestartsOnClose ==
  ev = "disconnectDone" => SimRunning

\* C5: when the read loop ends on a failed read, the reader is cleared, the
\* connect control is enabled and the disconnect control is disabled.
C5_ReadErrorDisconnects ==
  ev = "readError"
    => (reader = NULL /\ ~btnConnectDisabled /\ btnDisconnectDisabled)

\* C6: once the read loop has ended without disconnect being called, a
\* refresh-rate change leaves the simulator running.
C6_SimulatorFallback ==
  (loopPc = "ended" /\ closes = 0 /\ discPc = "idle" /\ ev = "rateChange")
    => SimRunning

\* C7: a failed open from the disconnected state leaves no reader attached,
\* the connect control enabled, the disconnect control as it was (disabled),
\* and the simulator timer as it was (running).
C7_OpenFailureStaysDisconnected ==
  [][(ev' = "connectFailed" /\ reader = NULL)
     => (/\ reader' = NULL
         /\ ~btnConnectDisabled'
         /\ btnDisconnectDisabled' = btnDisconnectDisabled
         /\ simTimer' = simTimer
         /\ intervals' = intervals)]_vars

C7_Witness ==
  /\ ev = "connectFailed"
  /\ reader = NULL
  /\ ~btnConnectDisabled
  /\ btnDisconnectDisabled
  /\ SimRunning

\* C8: every completed disconnect leaves the reader cleared, the disconnect
\* control disabled and the connect control enabled exactly when a port is
\* chosen, and no exception leaves the handler; a disconnect that completes
\* after another one has completed changes none of these.
C8_DisconnectIdempotent ==
  [][ev' = "disconnectDone"
     => (/\ reader' = NULL
         /\ btnDisconnectDisabled'
         /\ btnConnectDisabled' = (port' = NULL)
         /\ ~uncaught'
         /\ (closes >= 1
               => UNCHANGED <<reader, port, btnConnectDisabled,
                              btnDisconnectDisabled>>))]_vars

C8_Witness ==
  /\ ev = "disconnectDone"
  /\ closes = 2
  /\ reader = NULL
  /\ btnDisconnectDisabled

\* C9: after a disconnect has completed, and until a later open succeeds, no
\* read is pending and the live path applies no sample and pushes nothing.
C9_NoLiveSampleAfterClose ==
  closes > 0 => (loopPc # "reading" /\ ev # "liveChunk")

C9_Witness ==
  /\ closes > 0
  /\ ev = "chunkDropped"
  /\ reader = NULL

\* C10 (as amended): the parser is handed exactly the newline-terminated
\* lines of the received text that are not blank, trimmed, each once and in
\* stream order; the text after the last newline stays in the buffer.
C10_OnlyCompleteLinesParsed ==
  /\ handed = TrimmedNonEmpty(StreamLines(rx))
  /\ buffer = StreamRest(rx)

C10_Witness ==
  /\ ev = "liveChunk"
  /\ sent = 2
  /\ handed = <<<<"a", "b">>>>
  /\ buffer = <<"c">>

\* C10 (as stated): the parser is handed exactly the newline-terminated
\* lines of the received text.
C10_EveryLineParsed ==
  /\ handed = StreamLines(rx)
  /\ buffer = StreamRest(rx)

\* the read loop has just processed one more line
LineApplied == ev' = "liveChunk" /\ Len(handed') = Len(handed) + 1

LastHanded == handed[Len(handed)]

\* C11: a live telemetry line is pushed into the history and the page is
\* recomputed from it inside the task that ingested it, whether or not
\* auto-refresh is enabled.
C11_LiveLinePushesAndRenders ==
  [][(LineApplied /\ Includes(LastHanded', DataMarker))
     => (/\ pushLog' = Append(pushLog, PushEntry(state', now'))
         /\ \A k \in DOMAIN hist :
              hist'[k] = Last(Append(hist[k], PushEntry(state', now')[k]), MAX_POINTS)
         /\ renders' = renders + 1
         /\ ui'.charts.alt = hist'.alt
         /\ ui'.charts.temp = hist'.temp
         /\ ui'.charts.pres = hist'.pres
         /\ ui'.metrics.alt = toFixed(state'.alt, 2)
         /\ ui'.metrics.lag = 0)]_vars

C11_Witness ==
  /\ ev = "liveChunk"
  /\ ~autoRefresh
  /\ handed # <<>>
  /\ Includes(LastHanded, DataMarker)
  /\ Len(pushLog) = 1
  /\ renders = 1
  /\ ui.charts.alt = <<5 * Scale>>

\* C12: a refresh-rate change leaves the four history sequences, the push
\* log and the telemetry state as they were; afterwards the one refresh timer
\* runs with the period of the new rate.
C12_RateChangeKeepsHistory ==
  [][ev' = "rateChange"
     => (/\ hist' = hist
         /\ pushLog' = pushLog
         /\ state' = state
         /\ ui' = ui
         /\ \A iv \in RefreshIntervals' : iv.period = PeriodMs(refreshHz'))]_vars

C12_Witness ==
  /\ ev = "rateChange"
  /\ refreshHz = 1
  /\ Len(hist.alt) >= 2
  /\ hist.alt[1] # hist.alt[2]
  /\ \E iv \in RefreshIntervals : iv.period = 1000

\* the wire format: the key of each channel, the tokens of a telemetry line,
\* and a token cut at its first "-"
FieldKey ==
  [alt |-> <<"A">>, temp |-> <<"T">>, pres |-> <<"P">>, acc_x |-> <<"X">>,
   acc_y |-> <<"Y">>, acc_z |-> <<"Z">>, yaw_x |-> <<"Y", "X">>,
   yaw_y |-> <<"Y", "Y">>, yaw_z |-> <<"Y", "Z">>]

LineTokens(line) ==
  LET s == Trim(line)
  IN  TrimmedNonEmpty(Split(IF StartsWith(s, DataPrefix)
                            THEN SubSeq(s, 6, Len(s))
                            ELSE s, ";"))

TokenKey(p) == SubSeq(p, 1, IndexOf(p, "-") - 1)

TokenRest(p) == SubSeq(p, IndexOf(p, "-") + 1, Len(p))

\* the tokens of a line that name channel f
TokensOf(line, f) ==
  LET toks == LineTokens(line)
  IN  {i \in DOMAIN toks :
         Includes(toks[i], <<"-">>) /\ TokenKey(toks[i]) = FieldKey[f]}

MaxOf(S) == CHOOSE i \in S : \A j \in S : j <= i

\* C13: when the last token of a live line that names a channel carries a
\* negative decimal value (the text after its first "-" starts with "-" and
\* is a number), the channel holds that negative value afterwards.
C13_NegativeValueParsed ==
  (ev = "liveChunk" /\ handed # <<>>)
    => \A f \in DOMAIN FieldKey :
         LET idx == TokensOf(LastHanded, f)
             rest == TokenRest(LineTokens(LastHanded)[MaxOf(idx)])
         IN  (idx # {} /\ rest # <<>> /\ Head(rest) = "-" /\ ~parseFloat(rest).nan)
               => state[f] = parseFloat(rest).v

\* the value the parser is to read from a token: the text after its first
\* "-", up to the next "-" if there is one
TokenValue(p) ==
  LET rest == TokenRest(p)
      cut == IndexOf(rest, "-")
  IN  IF cut = 0 THEN rest ELSE SubSeq(rest, 1, cut - 1)

\* the tokens of a line that name channel f with a value that is a number
ValuedTokensOf(line, f) ==
  LET toks == LineTokens(line)
  IN  {i \in TokensOf(line, f) : ~parseFloat(TokenValue(toks[i])).nan}

\* the record a telemetry line stands for: each channel holds the value of
\* the last token that names it with a number, and 0 when there is none
ExpectedField(line, f) ==
  LET valued == ValuedTokensOf(line, f)
  IN  IF valued = {}
      THEN 0
      ELSE parseFloat(TokenValue(LineTokens(line)[MaxOf(valued)])).v

C19_LineReplacesSample ==
  [][LineApplied
     => \A f \in DOMAIN FieldKey :
          /\ state'[f] = parseSerialLine(LastHanded')[f]
          /\ TokensOf(LastHanded', f) = {} => state'[f] = 0]_vars

C19_Witness ==
  /\ ev = "liveChunk"
  /\ Len(handed) = 2
  /\ LineTokens(handed[1]) = <<TokA, TokT>>
  /\ LineTokens(handed[2]) = <<TokZ, TokYX>>
  /\ pushLog[1].alt = 4502 /\ pushLog[1].temp = 275
  /\ state.alt = 0 /\ state.temp = 0
  /\ state.acc_z = 9 * Scale /\ state.yaw_x = 10 * Scale

\* the lag a reading at this instant gives
LagNow == IF now >= state.ts THEN now - state.ts ELSE 0

\* C15: the lag shown by a recompute is max(0, now - state.ts); the lag is
\* never negative, does not decrease over a step that leaves state.ts alone,
\* and is 0 in the state a live line or a simulator tick leaves behind.
C15_LagSeconds ==
  [][/\ ui'.metrics.lag >= 0
     /\ renders' # renders => ui'.metrics.lag = LagNow'
     /\ state'.ts = state.ts => LagNow' >= LagNow
     /\ (LineApplied \/ ev' = "simTick") => (state'.ts = now' /\ LagNow' = 0)
     /\ LineApplied => ui'.metrics.lag = 0]_vars

C15_Witness ==
  /\ ev = "refreshTick"
  /\ handed # <<>>
  /\ state.alt = 5 * Scale
  /\ state.ts = 0
  /\ now = MaxNow
  /\ ui.metrics.lag = MaxNow

\* C16: a simulator tick leaves the four history sequences, the push log
\* and the rendered payload as they were; with no transport attached the
\* history changes only in a refresh-timer tick, by the entry of the
\* telemetry state that tick found.
C16_SimulatorWritesStateOnly ==
  [][/\ ev' = "simTick"
          => (hist' = hist /\ pushLog' = pushLog /\ ui' = ui /\ renders' = renders)
     /\ (hist' # hist /\ ev' # "liveChunk")
          => (/\ ev' = "refreshTick"
              /\ state' = state
              /\ pushLog' = Append(pushLog, PushEntry(state, now)))]_vars

C16_Witness ==
  /\ ev = "simTick"
  /\ hist.alt = <<0>>
  /\ state.alt > 100 * Scale
  /\ reader = NULL

\* C17: in every state exactly one refresh timer is active; it is the one
\* refreshTimer names and its period is that of the current rate.
C17_OneRefreshTimer ==
  /\ Cardinality(RefreshIntervals) = 1
  /\ \A iv \in RefreshIntervals :
       iv.id = refreshTimer /\ iv.period = PeriodMs(refreshHz)

C17_Witness ==
  /\ ev = "rateChange"
  /\ refreshHz = 10
  /\ Cardinality(RefreshIntervals) = 1
  /\ pushLog # <<>>

\* C18: a refresh-timer tick with auto-refresh enabled appends exactly one
\* entry, holding the telemetry state the tick found, and the recompute
\* that follows sees it; a tick with auto-refresh disabled leaves the
\* history, the telemetry state and the rendered payload as they were.
C18_RefreshTickPushesOnce ==
  [][/\ ev' = "refreshTick"
          => (/\ autoRefresh
              /\ state' = state
              /\ pushLog' = Append(pushLog, PushEntry(state, now))
              /\ \A k \in DOMAIN hist :
                   hist'[k] = Last(Append(hist[k], PushEntry(state, now)[k]), MAX_POINTS)
              /\ renders' = renders + 1
              /\ ui'.charts = [alt |-> hist'.alt, temp |-> hist'.temp,
                               pres |-> hist'.pres]
              /\ ui'.metrics.alt = toFixed(state.alt, 2))
     /\ ev' = "refreshIdle"
          => (/\ ~autoRefresh
              /\ hist' = hist
              /\ pushLog' = pushLog
              /\ state' = state
              /\ ui' = ui
              /\ renders' = renders)]_vars

C18_Witness ==
  /\ ev = "refreshIdle"
  /\ ~autoRefresh
  /\ Len(pushLog) >= 1
  /\ renders = Len(pushLog)
  /\ ui.metrics.alt # toFixed(state.alt, 2)

C21_OneSimulatorTimer ==
  /\ Cardinality(SimIntervals) <= 1
  /\ (simTimer # NULL) <=> (SimIntervals # {})
  /\ \A iv \in SimIntervals : iv.id = simTimer

C21_Witness ==
  /\ ev = "rateChange"
  /\ closes > 0
  /\ reader = NULL
  /\ simTimer # NULL
  /\ Cardinality(SimIntervals) = 1
  /\ refreshHz = 10

\* C22: in every state the four history sequences have the same length,
\* and the four values at one index are those of one push: index i holds
\* the entry pushed Len(hist.t) - i pushes before the latest one.
C22_HistoryColumnsAligned ==
  /\ Len(hist.alt) = Len(hist.t)
  /\ Len(hist.temp) = Len(hist.t)
  /\ Len(hist.pres) = Len(hist.t)
  /\ Len(hist.t) <= Len(pushLog)
  /\ \A i \in 1..Len(hist.t) :
       pushLog[Len(pushLog) - Len(hist.t) + i]
         = [t |-> hist.t[i], alt |-> hist.alt[i], temp |-> hist.temp[i],
            pres |-> hist.pres[i]]

C22_Witness ==
  /\ ev = "liveChunk"
  /\ Len(pushLog) = MAX_POINTS + HistExtra
  /\ Len(hist.t) = MAX_POINTS
  /\ hist.temp[1] = 0
  /\ hist.temp[MAX_POINTS] = 7 * Scale
  /\ hist.pres[MAX_POINTS] = 9 * Scale

====
